---- MODULE Spec2Model ----
(***************************************************************************)
(* Model of internal/value/convert.go: the factory NewLegacyConverter      *)
(* (and NewConverter), the scalar helper makeScalarConverter and the       *)
(* closures PBValueOf / GoValueOf of the five Converter variants.          *)
(*                                                                         *)
(* A reflect.Type is a record (its identity is its name), a reflect.Value  *)
(* a record [type, val], a protoreflect.Value a box around the Go value    *)
(* it was made from.  A panic is a record with a field "fault".  The       *)
(* variables of a closure live in a heap cell allocated by the factory.    *)
(***************************************************************************)
EXTENDS Integers, Sequences, FiniteSets, TLC

\* ------------------------------------------------------------------ bounds
MaxLen == 2        \* longest string / byte slice
MaxNum == 1        \* numbers range over -MaxNum..MaxNum (unsigned: 0..MaxNum)
NumObjs == 2       \* message objects (pointer addresses 1..NumObjs)
NumThreads == 2    \* goroutines of the concurrent specification

\* ------------------------------------------------------------ reflect.Type
GoType(name, kind, pkg, elem, ifaces) ==
    [name |-> name, kind |-> kind, pkg |-> pkg, elem |-> elem, ifaces |-> ifaces]

boolType    == GoType("bool", "Bool", "", "", {})
int32Type   == GoType("int32", "Int32", "", "", {})
int64Type   == GoType("int64", "Int64", "", "", {})
uint32Type  == GoType("uint32", "Uint32", "", "", {})
uint64Type  == GoType("uint64", "Uint64", "", "", {})
float32Type == GoType("float32", "Float32", "", "", {})
float64Type == GoType("float64", "Float64", "", "", {})
stringType  == GoType("string", "String", "", "", {})
bytesType   == GoType("[]uint8", "Slice", "", "uint8", {})
byteType    == GoType("uint8", "Uint8", "", "", {})

\* The interfaces a type may implement (t.Implements(iface)).
enumIfaceV2    == "pref.ProtoEnum"
messageIfaceV1 == "papi.Message"
messageIfaceV2 == "pref.ProtoMessage"
unwrapperIface == "value.Unwrapper"

\* protoreflect.EnumNumber, the Go type of an abstract enum value.
enumNumberType == GoType("pref.EnumNumber", "Int32", "protoreflect", "", {})
\* The type of the object a LegacyWrapper's MessageOf returns.
legacyMessageType ==
    GoType("*legacyMessage", "Ptr", "impl", "", {messageIfaceV2, unwrapperIface})

\* Named (user-declared) types the factory is asked about.
MyBool      == GoType("MyBool", "Bool", "app", "", {})
MyInt32     == GoType("MyInt32", "Int32", "app", "", {})
MyString    == GoType("MyString", "String", "app", "", {})
MyBytes     == GoType("MyBytes", "Slice", "app", "uint8", {})
MyByteElems == GoType("[]MyByte", "Slice", "", "MyByte", {})
Int32Slice  == GoType("[]int32", "Slice", "", "int32", {})
EnumV2      == GoType("EnumV2", "Int32", "app", "", {enumIfaceV2})
EnumV2Other == GoType("EnumV2Other", "Int32", "app", "", {enumIfaceV2})
EnumV2Ptr   == GoType("*EnumP", "Ptr", "", "EnumP", {enumIfaceV2})
MsgV2       == GoType("*MsgV2", "Ptr", "", "MsgV2", {messageIfaceV2})
MsgV2Other  == GoType("*MsgV2Other", "Ptr", "", "MsgV2Other", {messageIfaceV2})
MsgV1       == GoType("*MsgV1", "Ptr", "", "MsgV1", {messageIfaceV1})
MsgV1Other  == GoType("*MsgV1Other", "Ptr", "", "MsgV1Other", {messageIfaceV1})
MsgBoth     == GoType("*MsgBoth", "Ptr", "", "MsgBoth", {messageIfaceV1, messageIfaceV2})
MsgV2Struct == GoType("MsgS", "Struct", "app", "", {messageIfaceV2})
PlainPtr    == GoType("*Plain", "Ptr", "", "Plain", {})

GoTypes ==
    { boolType, int32Type, int64Type, uint32Type, uint64Type, float32Type,
      float64Type, stringType, bytesType,
      MyBool, MyInt32, MyString, MyBytes, MyByteElems, Int32Slice,
      EnumV2, EnumV2Other, EnumV2Ptr,
      MsgV2, MsgV2Other, MsgV1, MsgV1Other, MsgBoth, MsgV2Struct, PlainPtr }

Implements(t, iface) == iface \in t.ifaces

\* ---------------------------------------------------------------- pref.Kind
Kinds ==
    { "Bool", "Int32", "Sint32", "Sfixed32", "Int64", "Sint64", "Sfixed64",
      "Uint32", "Fixed32", "Uint64", "Fixed64", "Float", "Double",
      "String", "Bytes", "Enum", "Message", "Group", "Invalid" }

\* ---------------------------------------------------------- LegacyWrapper
NoWrapper == "nil"
TheWrapper == "legacyWrapper"
Wrappers == {NoWrapper, TheWrapper}

\* ------------------------------------------------------------ reflect.Value
Nums == -MaxNum .. MaxNum
UNums == 0 .. MaxNum
ByteVals == {65, 255}

RECURSIVE StringsUpTo(_)
StringsUpTo(n) ==
    IF n = 0 THEN {<<>>}
    ELSE LET S == StringsUpTo(n - 1)
         IN  S \cup {Append(s, b) : s \in {x \in S : Len(x) = n - 1}, b \in ByteVals}

Strings == StringsUpTo(MaxLen)
NilSlice == [nil |-> TRUE, data |-> <<>>]
Slices == {NilSlice} \cup {[nil |-> FALSE, data |-> s] : s \in Strings}

PayloadsOf(t) ==
    CASE t.kind = "Bool" -> {TRUE, FALSE}
      [] t.kind \in {"Int32", "Int64", "Float32", "Float64"} -> Nums
      [] t.kind \in {"Uint32", "Uint64", "Uint8"} -> UNums
      [] t.kind = "String" -> Strings
      [] t.kind = "Slice" -> Slices
      [] t.kind = "Ptr" -> 1 .. NumObjs
      [] OTHER -> {0}

GoValue(t, x) == [type |-> t, val |-> x]
ValuesOf(t) == {GoValue(t, x) : x \in PayloadsOf(t)}
NativeValues == UNION {ValuesOf(t) : t \in GoTypes}

\* v.Len() of a string or a slice.
ValueLen(v) == IF v.type.kind = "Slice" THEN Len(v.val.data) ELSE Len(v.val)

IsFault(x) == "fault" \in DOMAIN x


\* ------------------------------------------------------------------ faults
\* panic(fmt.Sprintf("invalid Go type %v for protobuf kind %v", t, k))
UnsupportedFault(t, k) == [fault |-> "invalid Go type", goType |-> t, kind |-> k]
\* panic(fmt.Sprintf("invalid type: got %v, want %v", got, want))
MismatchFault(got, want) == [fault |-> "invalid type", got |-> got, want |-> want]
\* The panic of a pref.Value accessor called on a value of another kind.  The
\* accessor is not given the Converter's type, so its panic cannot name it.
ValueFault == [fault |-> "value type mismatch"]
\* The run-time panic of the failed type assertion v.Message().(Unwrapper).
AssertionFault(got) ==
    [fault |-> "interface conversion", got |-> got, iface |-> unwrapperIface]
\* The panic of reflect.Value.Convert between inconvertible types.
ReflectFault == [fault |-> "reflect: cannot convert"]

\* ------------------------------------------------------- package reflect
IsByteSlice(t) == t.kind = "Slice" /\ t.elem = byteType.name

\* reflect.Zero(t)
Zero(t) ==
    CASE t.kind = "Bool" -> GoValue(t, FALSE)
      [] t.kind = "String" -> GoValue(t, <<>>)
      [] t.kind = "Slice" -> GoValue(t, NilSlice)
      [] OTHER -> GoValue(t, 0)

\* v.Convert(t): a conversion between types of one underlying type keeps the
\* representation (a nil slice stays nil); string(bytes) copies the bytes;
\* []byte(string) always allocates, so its result is never nil.
Convert(v, t) ==
    LET s == v.type
    IN  CASE s.kind = t.kind /\ s.kind \notin {"Slice", "Ptr", "Struct"} ->
                 GoValue(t, v.val)
          [] s.kind = "Slice" /\ t.kind = "Slice" /\ s.elem = t.elem ->
                 GoValue(t, v.val)
          [] s.kind = "String" /\ IsByteSlice(t) ->
                 GoValue(t, [nil |-> FALSE, data |-> v.val])
          [] IsByteSlice(s) /\ t.kind = "String" ->
                 GoValue(t, v.val.data)
          [] OTHER -> ReflectFault

\* ------------------------------------------------------ pref.Value (a box)
\* pref.ValueOf(x) and v.Interface(): the abstract value keeps the Go value.
ValueOf(x) == [boxed |-> x]
Interface(v) == v.boxed

IsEnumValue(v) == v.boxed.type = enumNumberType
IsMessageValue(v) == v.boxed.type.kind = "Ptr" /\ Implements(v.boxed.type, messageIfaceV2)

\* v.Enum(): the EnumNumber, or a panic when v is no enum number.
Value_Enum(v) == IF IsEnumValue(v) THEN v.boxed ELSE ValueFault
\* v.Message(): the message, or a panic when v is no message.
Value_Message(v) == IF IsMessageValue(v) THEN v.boxed ELSE ValueFault
\* m.Interface(): the ProtoMessage of a message (the pointer itself).
Message_Interface(m) == m

\* ----------------------------------------------- enum and message descriptors
NoType == [desc |-> "nil"]
\* reflect.Zero(t).Interface().(pref.ProtoEnum).ProtoReflect().Type()
ProtoEnumType(t) == [desc |-> "enum", goType |-> t]
\* reflect.Zero(t).Interface().(pref.ProtoMessage).ProtoReflect().Type()
ProtoMessageType(t) == [desc |-> "message", goType |-> t]
\* e.ProtoReflect().Number()
ProtoEnumNumber(v) == v.val
\* et.New(n): the enum type's own constructor.
EnumType_New(et, n) == GoValue(et.goType, n)

\* w.EnumTypeOf(zero), w.MessageTypeOf(zero)
EnumTypeOf(w, z) == [desc |-> "enum", goType |-> z.type]
MessageTypeOf(w, z) == [desc |-> "message", goType |-> z.type]
\* w.MessageOf(m): m wrapped as a current-style message.
MessageOf(w, m) == GoValue(legacyMessageType, m)
\* The wrapped message's ProtoUnwrap().
ProtoUnwrap(m) == m.val

\* The abstract values a caller can hand to GoValueOf.
PBScalarTypes ==
    { boolType, int32Type, int64Type, uint32Type, uint64Type, float32Type,
      float64Type, stringType, bytesType, enumNumberType }
PBValues ==
    {ValueOf(x) : x \in UNION {ValuesOf(t) : t \in PBScalarTypes}}
    \cup {ValueOf(x) : x \in UNION {ValuesOf(t) : t \in {MsgV2, MsgV2Other, MsgBoth}}}
    \cup {ValueOf(MessageOf(TheWrapper, x)) :
              x \in UNION {ValuesOf(t) : t \in {MsgV1, MsgV1Other}}}


\* ------------------------------------------------------------- Converter
\* A closure is its code and the address of the heap cell holding the
\* variables it captured.
Closure(code, a) == [code |-> code, env |-> a]
Env(goType, pbType, w, desc) ==
    [goType |-> goType, pbType |-> pbType, w |-> w, desc |-> desc]
Converter(code, a, et, mt, legacy) ==
    [PBValueOf |-> Closure(code, a), GoValueOf |-> Closure(code, a),
     EnumType |-> et, MessageType |-> mt, IsLegacy |-> legacy]
Built(c, e) == [conv |-> c, env |-> e]
NoMatch == [nomatch |-> TRUE]
IsNoMatch(r) == "nomatch" \in DOMAIN r

\* makeScalarConverter(goType, pbType); a is the address of its closure cell.
makeScalarConverter(goType, pbType, a) ==
    Built(Converter("scalar", a, NoType, NoType, FALSE),
          Env(goType, pbType, NoWrapper, NoType))

\* The closures of makeScalarConverter.
\* Faulty variant: the empty string is converted like any other string.
scalar_PBValueOf_NoNormalize(goType, pbType, v) ==
    IF v.type # goType THEN MismatchFault(v.type, goType)
    ELSE ValueOf(Convert(v, pbType))

scalar_PBValueOf(goType, pbType, v) ==
    IF v.type # goType THEN MismatchFault(v.type, goType)
    ELSE IF goType.kind = "String" /\ pbType.kind = "Slice" /\ ValueLen(v) = 0
         THEN ValueOf(GoValue(bytesType, NilSlice))
         ELSE ValueOf(Convert(v, pbType))

\* Faulty variant: the result is left in the protocol-facing type.
scalar_GoValueOf_NoConvert(goType, pbType, x) ==
    LET rv == Interface(x)
    IN  IF rv.type # pbType THEN MismatchFault(rv.type, pbType)
        ELSE IF pbType.kind = "String" /\ goType.kind = "Slice" /\ ValueLen(rv) = 0
             THEN Zero(goType)
             ELSE rv

\* Faulty variant: the empty string is converted like any other string.
scalar_GoValueOf_NoNormalize(goType, pbType, x) ==
    LET rv == Interface(x)
    IN  IF rv.type # pbType THEN MismatchFault(rv.type, pbType)
        ELSE Convert(rv, goType)

scalar_GoValueOf(goType, pbType, x) ==
    LET rv == Interface(x)
    IN  IF rv.type # pbType THEN MismatchFault(rv.type, pbType)
        ELSE IF pbType.kind = "String" /\ goType.kind = "Slice" /\ ValueLen(rv) = 0
             THEN Zero(goType)
             ELSE Convert(rv, goType)

\* The tests of the classification, one per row of the switch.
IsStringOrBytes(t) ==
    t.kind = "String" \/ (t.kind = "Slice" /\ t.elem = byteType.name)
IsV2Enum(t) == t.kind # "Ptr" /\ Implements(t, enumIfaceV2)
\* Faulty variant: the legacy rule does not ask for a wrapper.
IsV1Enum_NoWrapperTest(t, w) == t.pkg # "" /\ t.kind = "Int32"
IsV1Enum(t, w) == w # NoWrapper /\ t.pkg # "" /\ t.kind = "Int32"
IsV2Message(t) == t.kind = "Ptr" /\ Implements(t, messageIfaceV2)
IsV1Message(t, w) == w # NoWrapper /\ t.kind = "Ptr" /\ Implements(t, messageIfaceV1)

\* The Converter literals of the Enum case.
enumV2Converter(t, a) ==
    Built(Converter("enumV2", a, ProtoEnumType(t), NoType, FALSE),
          Env(t, enumNumberType, NoWrapper, ProtoEnumType(t)))
\* Faulty variant: the legacy enum Converter is left without its EnumType.
enumV1Converter_NoEnumType(t, w, a) ==
    Built(Converter("enumV1", a, NoType, NoType, TRUE),
          Env(t, enumNumberType, w, EnumTypeOf(w, Zero(t))))
enumV1Converter(t, w, a) ==
    Built(Converter("enumV1", a, EnumTypeOf(w, Zero(t)), NoType, TRUE),
          Env(t, enumNumberType, w, EnumTypeOf(w, Zero(t))))

\* The Converter literals of the Message, Group case.
messageV2Converter(t, a) ==
    Built(Converter("messageV2", a, NoType, ProtoMessageType(t), FALSE),
          Env(t, t, NoWrapper, ProtoMessageType(t)))
messageV1Converter(t, w, a) ==
    Built(Converter("messageV1", a, NoType, MessageTypeOf(w, Zero(t)), TRUE),
          Env(t, legacyMessageType, w, MessageTypeOf(w, Zero(t))))

\* case pref.EnumKind: the current-style rule first, then the legacy rule.
enumCase(t, w, a) ==
    IF IsV2Enum(t) THEN enumV2Converter(t, a)
    ELSE IF IsV1Enum(t, w) THEN enumV1Converter(t, w, a)
    ELSE NoMatch

\* Faulty variant: the legacy rule is tried before the current-style rule.
messageCase_LegacyFirst(t, w, a) ==
    IF IsV1Message(t, w) THEN messageV1Converter(t, w, a)
    ELSE IF IsV2Message(t) THEN messageV2Converter(t, a)
    ELSE NoMatch

\* case pref.MessageKind, pref.GroupKind
messageCase(t, w, a) ==
    IF IsV2Message(t) THEN messageV2Converter(t, a)
    ELSE IF IsV1Message(t, w) THEN messageV1Converter(t, w, a)
    ELSE NoMatch

\* The scalar cases of the switch.
scalarCase(t, k, a) ==
    CASE k = "Bool" /\ t.kind = "Bool" -> makeScalarConverter(t, boolType, a)
      [] k \in {"Int32", "Sint32", "Sfixed32"} /\ t.kind = "Int32" ->
             makeScalarConverter(t, int32Type, a)
      [] k \in {"Int64", "Sint64", "Sfixed64"} /\ t.kind = "Int64" ->
             makeScalarConverter(t, int64Type, a)
      [] k \in {"Uint32", "Fixed32"} /\ t.kind = "Uint32" ->
             makeScalarConverter(t, uint32Type, a)
      [] k \in {"Uint64", "Fixed64"} /\ t.kind = "Uint64" ->
             makeScalarConverter(t, uint64Type, a)
      [] k = "Float" /\ t.kind = "Float32" -> makeScalarConverter(t, float32Type, a)
      [] k = "Double" /\ t.kind = "Float64" -> makeScalarConverter(t, float64Type, a)
      [] k = "String" /\ IsStringOrBytes(t) -> makeScalarConverter(t, stringType, a)
      [] k = "Bytes" /\ IsStringOrBytes(t) -> makeScalarConverter(t, bytesType, a)
      [] OTHER -> NoMatch

\* NewLegacyConverter(t, k, w): the Converter and the cell of its closures
\* (allocated at address a), or the panic of the last line.
NewLegacyConverter(t, k, w, a) ==
    LET r == CASE k = "Enum" -> enumCase(t, w, a)
               [] k \in {"Message", "Group"} -> messageCase(t, w, a)
               [] OTHER -> scalarCase(t, k, a)
    IN  IF IsNoMatch(r) THEN UnsupportedFault(t, k) ELSE r

\* NewConverter(t, k)
NewConverter(t, k, a) == NewLegacyConverter(t, k, NoWrapper, a)

\* ------------------------------------------- closures of the Enum case
enumV2_PBValueOf(t, v) ==
    IF v.type # t THEN MismatchFault(v.type, t)
    ELSE ValueOf(GoValue(enumNumberType, ProtoEnumNumber(v)))

enumV2_GoValueOf(t, et, x) ==
    LET n == Value_Enum(x)
    IN  IF IsFault(n) THEN n
        ELSE LET rv == EnumType_New(et, n.val)
             IN  IF rv.type # t THEN MismatchFault(rv.type, t) ELSE rv

enumV1_PBValueOf(t, v) ==
    IF v.type # t THEN MismatchFault(v.type, t)
    ELSE ValueOf(GoValue(enumNumberType, v.val))

\* Faulty variant: the enum number is returned without conversion to t.
enumV1_GoValueOf_NoConvert(t, x) == Value_Enum(x)

enumV1_GoValueOf(t, x) ==
    LET n == Value_Enum(x)
    IN  IF IsFault(n) THEN n ELSE Convert(n, t)

\* ---------------------------------------- closures of the Message case
messageV2_PBValueOf(t, v) ==
    IF v.type # t THEN MismatchFault(v.type, t) ELSE ValueOf(v)

\* Faulty variant: the type of the message is not compared with t.
messageV2_GoValueOf_NoCheck(t, x) ==
    LET m == Value_Message(x)
    IN  IF IsFault(m) THEN m ELSE Message_Interface(m)

messageV2_GoValueOf(t, x) ==
    LET m == Value_Message(x)
    IN  IF IsFault(m) THEN m
        ELSE LET rv == Message_Interface(m)
             IN  IF rv.type # t THEN MismatchFault(rv.type, t) ELSE rv

messageV1_PBValueOf(t, w, v) ==
    IF v.type # t THEN MismatchFault(v.type, t) ELSE ValueOf(MessageOf(w, v))

\* Faulty variant: the wrapper is returned instead of what it wraps.
messageV1_GoValueOf_NoUnwrap(t, x) ==
    LET m == Value_Message(x)
    IN  IF IsFault(m) THEN m
        ELSE LET rv == Message_Interface(m)
             IN  IF rv.type # t THEN MismatchFault(rv.type, t) ELSE rv

messageV1_GoValueOf(t, x) ==
    LET m == Value_Message(x)
    IN  IF IsFault(m) THEN m
        ELSE IF ~Implements(m.type, unwrapperIface) THEN AssertionFault(m.type)
        ELSE LET rv == ProtoUnwrap(m)
             IN  IF rv.type # t THEN MismatchFault(rv.type, t) ELSE rv

\* c.PBValueOf(v) and c.GoValueOf(x): the closure's code run on the variables
\* it captured, read from its cell of the heap h.
Call_PBValueOf(c, v, h) ==
    LET e == h[c.PBValueOf.env]
        code == c.PBValueOf.code
    IN  CASE code = "scalar" -> scalar_PBValueOf(e.goType, e.pbType, v)
          [] code = "enumV2" -> enumV2_PBValueOf(e.goType, v)
          [] code = "enumV1" -> enumV1_PBValueOf(e.goType, v)
          [] code = "messageV2" -> messageV2_PBValueOf(e.goType, v)
          [] code = "messageV1" -> messageV1_PBValueOf(e.goType, e.w, v)

Call_GoValueOf(c, x, h) ==
    LET e == h[c.GoValueOf.env]
        code == c.GoValueOf.code
    IN  CASE code = "scalar" -> scalar_GoValueOf(e.goType, e.pbType, x)
          [] code = "enumV2" -> enumV2_GoValueOf(e.goType, e.desc, x)
          [] code = "enumV1" -> enumV1_GoValueOf(e.goType, x)
          [] code = "messageV2" -> messageV2_GoValueOf(e.goType, x)
          [] code = "messageV1" -> messageV1_GoValueOf(e.goType, x)


\* ------------------------------------------------------------------ state
Threads == 1 .. NumThreads
None == [none |-> TRUE]
IsNone(x) == "none" \in DOMAIN x
IsConverter(x) == "PBValueOf" \in DOMAIN x

VARIABLES
    pc,      \* pc[th]: where goroutine th is
    args,    \* args[th]: the (t, k, w) th called the factory with
    conv,    \* conv[th]: what the factory returned to th (Converter or panic)
    use,     \* use[th]: the goroutine whose Converter th invokes
    in,      \* in[th]: the native value th passed to PBValueOf
    pv,      \* pv[th]: PBValueOf's result, or the argument of GoValueOf
    out,     \* out[th]: GoValueOf's result
    heap     \* the cells of the closures built so far

vars == <<pc, args, conv, use, in, pv, out, heap>>

Init ==
    /\ pc = [th \in Threads |-> "idle"]
    /\ args = [th \in Threads |-> None]
    /\ conv = [th \in Threads |-> None]
    /\ use = [th \in Threads |-> th]
    /\ in = [th \in Threads |-> None]
    /\ pv = [th \in Threads |-> None]
    /\ out = [th \in Threads |-> None]
    /\ heap = <<>>

\* Faulty variant: every factory call keeps its closure variables in one
\* shared (package-level) cell.
NewAddr_Shared(h) == 1

\* The address the runtime gives the cell of a new closure: a fresh one.
NewAddr(h) == Len(h) + 1
Store(h, a, e) == IF a > Len(h) THEN Append(h, e) ELSE [h EXCEPT ![a] = e]

\* th calls NewLegacyConverter(t, k, w).
Build(th, t, k, w) ==
    /\ pc[th] = "idle"
    /\ LET r == NewLegacyConverter(t, k, w, NewAddr(heap))
       IN  IF IsFault(r)
           THEN /\ conv' = [conv EXCEPT ![th] = r]
                /\ pc' = [pc EXCEPT ![th] = "failed"]
                /\ heap' = heap
           ELSE /\ conv' = [conv EXCEPT ![th] = r.conv]
                /\ pc' = [pc EXCEPT ![th] = "built"]
                /\ heap' = Store(heap, NewAddr(heap), r.env)
    /\ args' = [args EXCEPT ![th] = [t |-> t, k |-> k, w |-> w]]
    /\ UNCHANGED <<use, in, pv, out>>

\* th calls NewConverter(t, k).
BuildCurrent(th, t, k) ==
    /\ pc[th] = "idle"
    /\ LET r == NewConverter(t, k, NewAddr(heap))
       IN  IF IsFault(r)
           THEN /\ conv' = [conv EXCEPT ![th] = r]
                /\ pc' = [pc EXCEPT ![th] = "failed"]
                /\ heap' = heap
           ELSE /\ conv' = [conv EXCEPT ![th] = r.conv]
                /\ pc' = [pc EXCEPT ![th] = "built"]
                /\ heap' = Store(heap, NewAddr(heap), r.env)
    /\ args' = [args EXCEPT ![th] = [t |-> t, k |-> k, w |-> NoWrapper]]
    /\ UNCHANGED <<use, in, pv, out>>

\* th calls PBValueOf(v) of the Converter goroutine u built.
CallPBValueOf(th, u, v) ==
    /\ pc[th] \in {"idle", "built"}
    /\ IsConverter(conv[u])
    /\ LET r == Call_PBValueOf(conv[u], v, heap)
       IN  /\ pv' = [pv EXCEPT ![th] = r]
           /\ pc' = [pc EXCEPT ![th] = IF IsFault(r) THEN "pbFault" ELSE "pbDone"]
    /\ use' = [use EXCEPT ![th] = u]
    /\ in' = [in EXCEPT ![th] = v]
    /\ UNCHANGED <<args, conv, out, heap>>

\* th passes PBValueOf's result back to GoValueOf of the same Converter.
CallGoValueOfBack(th) ==
    /\ pc[th] = "pbDone"
    /\ out' = [out EXCEPT ![th] = Call_GoValueOf(conv[use[th]], pv[th], heap)]
    /\ pc' = [pc EXCEPT ![th] = "backDone"]
    /\ UNCHANGED <<args, conv, use, in, pv, heap>>

\* th calls GoValueOf(x) of the Converter goroutine u built, on any x.
CallGoValueOf(th, u, x) ==
    /\ pc[th] \in {"idle", "built"}
    /\ IsConverter(conv[u])
    /\ out' = [out EXCEPT ![th] = Call_GoValueOf(conv[u], x, heap)]
    /\ pv' = [pv EXCEPT ![th] = x]
    /\ use' = [use EXCEPT ![th] = u]
    /\ pc' = [pc EXCEPT ![th] = "goDone"]
    /\ UNCHANGED <<args, conv, in, heap>>

\* One caller: it builds a Converter, then invokes it.
Next ==
    \/ \E t \in GoTypes, k \in Kinds, w \in Wrappers : Build(1, t, k, w)
    \/ \E t \in GoTypes, k \in Kinds : BuildCurrent(1, t, k)
    \/ \E v \in NativeValues : CallPBValueOf(1, 1, v)
    \/ CallGoValueOfBack(1)
    \/ \E x \in PBValues : CallGoValueOf(1, 1, x)

\* The inputs of the concurrent specification.
ConcTypes == {MyInt32, MyString}
ConcKinds == {"Enum", "Bytes"}
ConcNatives == {[type |-> MyInt32, val |-> 1], [type |-> MyString, val |-> <<>>]}
ConcAbstracts == {[boxed |-> [type |-> enumNumberType, val |-> 1]]}

\* Several goroutines: each may build a Converter, and each invokes a
\* Converter that it or another goroutine built, in any interleaving.
NextConc ==
    \E th \in Threads :
        \/ \E t \in ConcTypes, k \in ConcKinds, w \in Wrappers : Build(th, t, k, w)
        \/ \E t \in ConcTypes, k \in ConcKinds : BuildCurrent(th, t, k)
        \/ \E u \in Threads, v \in ConcNatives : CallPBValueOf(th, u, v)
        \/ CallGoValueOfBack(th)
        \/ \E u \in Threads, x \in ConcAbstracts : CallGoValueOf(th, u, x)

SpecConc == Init /\ [][NextConc]_vars

Spec == Init /\ [][Next]_vars


\* ------------------------------------------------------- claims: vocabulary
\* The Converter goroutine th invoked and the factory arguments it was built from.
ConvOf(th) == conv[use[th]]
ArgsOf(th) == args[use[th]]
Invoked(th) == pc[th] \in {"pbFault", "pbDone", "backDone", "goDone"}

ScalarKinds == Kinds \ {"Enum", "Message", "Group", "Invalid"}
MessageKinds == {"Message", "Group"}
IsByteSequence(t) == t.kind = "Slice" /\ t.elem = "uint8"
IsEmptyNative(v) ==
    \/ v.type.kind = "String" /\ v.val = <<>>
    \/ v.type.kind = "Slice" /\ v.val.data = <<>>
NilBytes == [boxed |-> [type |-> bytesType, val |-> [nil |-> TRUE, data |-> <<>>]]]
IsMismatchFault(f) == IsFault(f) /\ f.fault = "invalid type"

\* The native kind the classification table gives each scalar protocol kind.
TableKind(k) ==
    CASE k = "Bool" -> {"Bool"}
      [] k \in {"Int32", "Sint32", "Sfixed32"} -> {"Int32"}
      [] k \in {"Int64", "Sint64", "Sfixed64"} -> {"Int64"}
      [] k \in {"Uint32", "Fixed32"} -> {"Uint32"}
      [] k \in {"Uint64", "Fixed64"} -> {"Uint64"}
      [] k = "Float" -> {"Float32"}
      [] k = "Double" -> {"Float64"}
      [] OTHER -> {}
CurrentEnumRule(t) == t.kind # "Ptr" /\ enumIfaceV2 \in t.ifaces
LegacyEnumRule(t, w) == w # NoWrapper /\ t.pkg # "" /\ t.kind = "Int32"
CurrentMessageRule(t) == t.kind = "Ptr" /\ messageIfaceV2 \in t.ifaces
LegacyMessageRule(t, w) == w # NoWrapper /\ t.kind = "Ptr" /\ messageIfaceV1 \in t.ifaces
InTable(t, k, w) ==
    \/ t.kind \in TableKind(k)
    \/ k \in {"String", "Bytes"} /\ (t.kind = "String" \/ IsByteSequence(t))
    \/ k = "Enum" /\ (CurrentEnumRule(t) \/ LegacyEnumRule(t, w))
    \/ k \in MessageKinds /\ (CurrentMessageRule(t) \/ LegacyMessageRule(t, w))

\* C1: the factory returns a Converter exactly for the pairs of the
\* classification table (a legacy rule counts only with a wrapper); for every
\* other pair it panics, naming the native type and the protocol kind.
C1_BuildExactlyTable ==
    \A th \in Threads :
        ~IsNone(args[th]) =>
            IF InTable(args[th].t, args[th].k, args[th].w)
            THEN IsConverter(conv[th])
            ELSE /\ IsFault(conv[th])
                 /\ conv[th].fault = "invalid Go type"
                 /\ conv[th].goType = args[th].t
                 /\ conv[th].kind = args[th].k

C1_Witness ==
    \E th \in Threads :
        /\ pc[th] = "failed"
        /\ args[th] = [t |-> MyInt32, k |-> "Enum", w |-> NoWrapper]

PBTypeName(k) ==
    CASE k = "Bool" -> "bool"
      [] k \in {"Int32", "Sint32", "Sfixed32"} -> "int32"
      [] k \in {"Int64", "Sint64", "Sfixed64"} -> "int64"
      [] k \in {"Uint32", "Fixed32"} -> "uint32"
      [] k \in {"Uint64", "Fixed64"} -> "uint64"
      [] k = "Float" -> "float32"
      [] k = "Double" -> "float64"
      [] k = "String" -> "string"
      [] k = "Bytes" -> "[]uint8"
IsAbstractMessage(x) == messageIfaceV2 \in x.boxed.type.ifaces
IsWrappedMessage(x) == unwrapperIface \in x.boxed.type.ifaces
WrongKind(k, x) ==
    \/ k = "Enum" /\ x.boxed.type.name # "pref.EnumNumber"
    \/ k \in MessageKinds /\ ~IsAbstractMessage(x)
WrongMessage(t, k, legacy, x) ==
    /\ k \in MessageKinds
    /\ IsAbstractMessage(x)
    /\ IF legacy THEN IsWrappedMessage(x) /\ x.boxed.val.type # t
                 ELSE x.boxed.type # t
NotUnwrappable(k, legacy, x) ==
    k \in MessageKinds /\ legacy /\ IsAbstractMessage(x) /\ ~IsWrappedMessage(x)
AbstractMismatch(t, k, legacy, x) ==
    \/ k \in ScalarKinds /\ x.boxed.type.name # PBTypeName(k)
    \/ WrongKind(k, x)
    \/ WrongMessage(t, k, legacy, x)
    \/ NotUnwrappable(k, legacy, x)

\* C3 as stated: every invocation with a value of another run-time type
\* panics with a type mismatch that carries the observed and the expected type.
C3_Original ==
    \A th \in Threads :
        /\ (pc[th] \in {"pbFault", "pbDone"} /\ in[th].type # ArgsOf(th).t) =>
               IsMismatchFault(pv[th])
        /\ (pc[th] = "goDone"
              /\ AbstractMismatch(ArgsOf(th).t, ArgsOf(th).k, ConvOf(th).IsLegacy, pv[th])) =>
               IsMismatchFault(out[th])

\* C3 as amended: PBValueOf of a value of another type panics with the
\* mismatch of both types; GoValueOf of a mismatched abstract value always
\* panics and never returns a value; its panic carries both types for a
\* scalar Converter and for a message (a wrapped message, for a legacy
\* Converter) of another native type; an abstract value of another kind given
\* to an Enum or Message Converter panics in the value's accessor, and a
\* message that is no wrapper given to a legacy Message Converter panics in
\* the type assertion, neither naming the Converter's type.
C3_Amended ==
    \A th \in Threads :
        /\ (pc[th] \in {"pbFault", "pbDone"} /\ in[th].type # ArgsOf(th).t) =>
               /\ IsMismatchFault(pv[th])
               /\ pv[th].got = in[th].type
               /\ pv[th].want = ArgsOf(th).t
        /\ (pc[th] = "goDone"
              /\ AbstractMismatch(ArgsOf(th).t, ArgsOf(th).k, ConvOf(th).IsLegacy, pv[th])) =>
               LET t == ArgsOf(th).t
                   k == ArgsOf(th).k
                   legacy == ConvOf(th).IsLegacy
                   x == pv[th]
                   f == out[th]
               IN  /\ IsFault(f)
                   /\ k \in ScalarKinds =>
                         /\ IsMismatchFault(f)
                         /\ f.got = x.boxed.type
                         /\ f.want.name = PBTypeName(k)
                   /\ WrongMessage(t, k, legacy, x) =>
                         /\ IsMismatchFault(f)
                         /\ f.got = (IF legacy THEN x.boxed.val.type ELSE x.boxed.type)
                         /\ f.want = t
                   /\ WrongKind(k, x) => f.fault = "value type mismatch"
                   /\ NotUnwrappable(k, legacy, x) => f.fault = "interface conversion"

C3_Witness ==
    \E th \in Threads :
        /\ pc[th] = "goDone"
        /\ ArgsOf(th) = [t |-> MyInt32, k |-> "Enum", w |-> TheWrapper]
        /\ pv[th].boxed.type = int32Type
        /\ IsFault(out[th])
        /\ ~IsMismatchFault(out[th])

\* C4: EnumType is set exactly for kind Enum, MessageType exactly for kinds
\* Message and Group, never both, and neither for a scalar kind.
C4_TypeInfoByKind ==
    \A th \in Threads :
        IsConverter(conv[th]) =>
            /\ (conv[th].EnumType.desc # "nil") <=> (args[th].k = "Enum")
            /\ (conv[th].MessageType.desc # "nil") <=> (args[th].k \in MessageKinds)
            /\ ~(conv[th].EnumType.desc # "nil" /\ conv[th].MessageType.desc # "nil")
            /\ args[th].k \in ScalarKinds =>
                  conv[th].EnumType.desc = "nil" /\ conv[th].MessageType.desc = "nil"

C4_Witness ==
    \E th \in Threads :
        /\ IsConverter(conv[th])
        /\ args[th] = [t |-> MyInt32, k |-> "Enum", w |-> TheWrapper]
        /\ conv[th].EnumType.desc = "enum"
        /\ conv[th].MessageType.desc = "nil"


\* C5 as stated: a Bytes Converter of either native shape turns every empty
\* native value into the nil byte sequence.
C5_Original ==
    \A th \in Threads :
        (pc[th] \in {"pbDone", "backDone"} /\ ArgsOf(th).k = "Bytes"
           /\ in[th].type = ArgsOf(th).t /\ IsEmptyNative(in[th])) =>
            pv[th] = NilBytes

\* C5 as amended: a Bytes Converter of a text-string native type turns the
\* empty string into the nil byte sequence; one of a byte-sequence native type
\* keeps an empty input as it is (nil stays nil, allocated stays allocated).
C5_Amended ==
    \A th \in Threads :
        (pc[th] \in {"pbDone", "backDone"} /\ ArgsOf(th).k = "Bytes"
           /\ in[th].type = ArgsOf(th).t /\ IsEmptyNative(in[th])) =>
            /\ ~IsFault(pv[th])
            /\ pv[th].boxed.type = bytesType
            /\ pv[th].boxed.val.data = <<>>
            /\ pv[th].boxed.val.nil =
                   (IF ArgsOf(th).t.kind = "String" THEN TRUE ELSE in[th].val.nil)

C5_Witness ==
    \E th \in Threads :
        /\ pc[th] = "pbDone"
        /\ ArgsOf(th).t = MyString
        /\ ArgsOf(th).k = "Bytes"
        /\ in[th] = [type |-> MyString, val |-> <<>>]
        /\ pv[th] = NilBytes

\* C6: for native type byte sequence and kind String, every empty input (nil
\* or allocated) comes back from GoValueOf(PBValueOf(input)) as the nil byte
\* sequence.
C6_EmptyBytesAsStringIsNil ==
    \A th \in Threads :
        (Invoked(th) /\ pc[th] # "goDone" /\ ArgsOf(th).k = "String"
           /\ IsByteSequence(ArgsOf(th).t)
           /\ in[th].type = ArgsOf(th).t /\ IsEmptyNative(in[th])) =>
            /\ pc[th] # "pbFault"
            /\ pc[th] = "backDone" =>
                  out[th] = [type |-> ArgsOf(th).t, val |-> [nil |-> TRUE, data |-> <<>>]]

C6_Witness ==
    \E th \in Threads :
        /\ pc[th] = "backDone"
        /\ ArgsOf(th).t = bytesType
        /\ ArgsOf(th).k = "String"
        /\ in[th].val = [nil |-> FALSE, data |-> <<>>]
        /\ out[th].val = [nil |-> TRUE, data |-> <<>>]

\* C7: an Enum Converter, current or legacy, turns e into the abstract enum
\* number equal to e's number, and turns that number back into a value of the
\* native type with the same number.
C7_EnumNumberRoundTrip ==
    \A th \in Threads :
        (Invoked(th) /\ pc[th] # "goDone" /\ ArgsOf(th).k = "Enum"
           /\ in[th].type = ArgsOf(th).t) =>
            /\ pc[th] # "pbFault"
            /\ pv[th].boxed.type.name = "pref.EnumNumber"
            /\ pv[th].boxed.val = in[th].val
            /\ pc[th] = "backDone" =>
                  /\ ~IsFault(out[th])
                  /\ out[th].type = ArgsOf(th).t
                  /\ out[th].val = in[th].val

C7_Witness ==
    \E th \in Threads :
        /\ pc[th] = "backDone"
        /\ ArgsOf(th).k = "Enum"
        /\ ConvOf(th).IsLegacy
        /\ in[th] = [type |-> MyInt32, val |-> 1]
        /\ out[th] = in[th]

\* C8: a Message or Group Converter returns the original native pointer from
\* GoValueOf(PBValueOf(m)): the pointer itself for a current-style message,
\* the unwrapped wrapper's content for a legacy one.
C8_MessageRoundTrip ==
    \A th \in Threads :
        (Invoked(th) /\ pc[th] # "goDone" /\ ArgsOf(th).k \in MessageKinds
           /\ in[th].type = ArgsOf(th).t) =>
            /\ pc[th] # "pbFault"
            /\ ~ConvOf(th).IsLegacy => pv[th].boxed = in[th]
            /\ ConvOf(th).IsLegacy => pv[th].boxed.val = in[th]
            /\ pc[th] = "backDone" => out[th] = in[th]

C8_Witness ==
    \E th \in Threads :
        /\ pc[th] = "backDone"
        /\ ArgsOf(th) = [t |-> MsgV1, k |-> "Group", w |-> TheWrapper]
        /\ ConvOf(th).IsLegacy
        /\ in[th] = [type |-> MsgV1, val |-> 2]
        /\ out[th] = in[th]

\* C10: IsLegacy is set exactly on the Converters a legacy rule built; the
\* current-style rule is tried first, so a type both rules accept gets the
\* current-style Converter, and no scalar Converter is legacy.
C10_IsLegacyIffLegacyRule ==
    \A th \in Threads :
        IsConverter(conv[th]) =>
            LET t == args[th].t
                k == args[th].k
                w == args[th].w
            IN  conv[th].IsLegacy <=>
                    \/ k = "Enum" /\ LegacyEnumRule(t, w) /\ ~CurrentEnumRule(t)
                    \/ k \in MessageKinds /\ LegacyMessageRule(t, w)
                          /\ ~CurrentMessageRule(t)

C10_Witness ==
    \E th \in Threads :
        /\ IsConverter(conv[th])
        /\ args[th] = [t |-> MsgBoth, k |-> "Message", w |-> TheWrapper]
        /\ ~conv[th].IsLegacy
        /\ conv[th].PBValueOf.code = "messageV2"


\* What one call gives when it runs alone, on a heap of its own.
AloneBuild(a) == NewLegacyConverter(a.t, a.k, a.w, 1)
AlonePBValueOf(a, v) ==
    LET r == AloneBuild(a) IN Call_PBValueOf(r.conv, v, <<r.env>>)
AloneGoValueOf(a, x) ==
    LET r == AloneBuild(a) IN Call_GoValueOf(r.conv, x, <<r.env>>)
\* The factory's result c (its closures' variables in heap h) is the result r
\* of the call run alone: the same panic, or a Converter with the same fields,
\* the same code and the same captured variables.
SameOutcome(c, h, r) ==
    IF IsFault(r)
    THEN IsFault(c) /\ c = r
    ELSE /\ IsConverter(c)
         /\ c.EnumType = r.conv.EnumType
         /\ c.MessageType = r.conv.MessageType
         /\ c.IsLegacy = r.conv.IsLegacy
         /\ c.PBValueOf.code = r.conv.PBValueOf.code
         /\ c.GoValueOf.code = r.conv.GoValueOf.code
         /\ h[c.PBValueOf.env] = r.env
         /\ h[c.GoValueOf.env] = r.env

====
